---------------------------- MODULE Spec2Model ----------------------------
(***************************************************************************)
(* Model of the product service's bulk ingestion pipeline                  *)
(* (controllers/product.controller.js: uploadProducts) together with the   *)
(* catalog store it writes to (models/product.model.js: productSchema and  *)
(* Product.bulkWrite), and of the listing of the catalog                   *)
(* (getAllProducts).                                                       *)
(*                                                                         *)
(* A CSV cell is a JavaScript string, modelled as a sequence of one        *)
(* character strings.  A decoded row is a function from the column names   *)
(* present in the row to cells: a column that the row lacks is absent from *)
(* the function's domain (JavaScript undefined).                           *)
(***************************************************************************)
EXTENDS Integers, Sequences, FiniteSets, TLC

VARIABLES up, catalog, clock, get

vars == <<up, catalog, clock, get>>

-----------------------------------------------------------------------------
(* Bounds of the model.                                                    *)

\* number of upload requests the service receives
NumUploads == 2

\* largest number of data rows in one uploaded file
MaxRows == 2

Uploads == 1..NumUploads

-----------------------------------------------------------------------------
(* JavaScript strings and numbers.                                         *)

WS == {" "}

Digits == {"0", "1", "2", "3", "4", "5", "6", "7", "8", "9"}

DigitVal(c) ==
    CASE c = "0" -> 0 [] c = "1" -> 1 [] c = "2" -> 2 [] c = "3" -> 3
      [] c = "4" -> 4 [] c = "5" -> 5 [] c = "6" -> 6 [] c = "7" -> 7
      [] c = "8" -> 8 [] c = "9" -> 9

\* A JavaScript number: NaN, +/-Infinity, or a finite value held in tenths
\* (v = 37 is 3.7), which is exact for the cells of the model, none of which
\* has more than one fractional digit.
NaN == [t |-> "nan", v |-> 0]

Infinity(sign) == [t |-> "inf", v |-> sign]

Num(tenths) == [t |-> "num", v |-> tenths]

isNaN(x) == x.t = "nan"

isFinite(x) == x.t = "num"

isInteger(x) == x.t = "num" /\ x.v % 10 = 0

\* x > y on JavaScript numbers: false when either side is NaN.
Gt(x, y) ==
    /\ ~isNaN(x)
    /\ ~isNaN(y)
    /\ IF x.t = "inf" THEN (x.v = 1 /\ y # x)
       ELSE IF y.t = "inf" THEN y.v = -1
       ELSE x.v > y.v

Lt(x, y) == Gt(y, x)

Le(x, y) == ~isNaN(x) /\ ~isNaN(y) /\ ~Gt(x, y)

\* the suffix of s from position i on
From(s, i) == SubSeq(s, i, Len(s))

\* the number of leading characters of s that belong to the set cs
RECURSIVE Span(_, _)
Span(s, cs) ==
    IF s # <<>> /\ Head(s) \in cs THEN 1 + Span(Tail(s), cs) ELSE 0

\* the value of a sequence of decimal digits
RECURSIVE DigitsVal(_)
DigitsVal(s) ==
    IF s = <<>> THEN 0 ELSE 10 * DigitsVal(SubSeq(s, 1, Len(s) - 1)) + DigitVal(s[Len(s)])

StartsWith(s, p) == Len(s) >= Len(p) /\ SubSeq(s, 1, Len(p)) = p

InfinityLit == <<"I", "n", "f", "i", "n", "i", "t", "y">>

\* String.prototype.trim, which the schema's trim: true applies.
RECURSIVE TrimEnd(_)
TrimEnd(s) ==
    IF s # <<>> /\ s[Len(s)] \in WS THEN TrimEnd(SubSeq(s, 1, Len(s) - 1)) ELSE s

Trim(s) == TrimEnd(From(s, Span(s, WS) + 1))

\* parseFloat(s): skip leading white space, read an optional sign, then the
\* longest prefix that is Infinity or a decimal literal (digits, optionally
\* a point and digits; a literal may start with the point).  Whatever
\* follows the literal is ignored.  NaN when there is no literal.
parseFloat(s) ==
    LET a    == From(s, Span(s, WS) + 1)
        sgn  == IF a # <<>> /\ Head(a) = "-" THEN -1 ELSE 1
        b    == IF a # <<>> /\ Head(a) \in {"-", "+"} THEN Tail(a) ELSE a
        ni   == Span(b, Digits)
        c    == From(b, ni + 1)
        nf   == IF c # <<>> /\ Head(c) = "." THEN Span(Tail(c), Digits) ELSE 0
        frac == IF nf > 0 THEN DigitVal(c[2]) ELSE 0
    IN  IF StartsWith(b, InfinityLit) THEN Infinity(sgn)
        ELSE IF ni = 0 /\ nf = 0 THEN NaN
        ELSE Num(sgn * (10 * DigitsVal(SubSeq(b, 1, ni)) + frac))

\* parseInt(s, 10): skip leading white space, read an optional sign, then
\* the longest prefix of decimal digits.  NaN when there is no digit.
parseInt(s) ==
    LET a   == From(s, Span(s, WS) + 1)
        sgn == IF a # <<>> /\ Head(a) = "-" THEN -1 ELSE 1
        b   == IF a # <<>> /\ Head(a) \in {"-", "+"} THEN Tail(a) ELSE a
        ni  == Span(b, Digits)
    IN  IF ni = 0 THEN NaN ELSE Num(sgn * 10 * DigitsVal(SubSeq(b, 1, ni)))


-----------------------------------------------------------------------------
(* Decoded rows (csv-parser output).                                       *)

Columns == {"sku", "name", "brand", "color", "size", "mrp", "price", "quantity"}

\* marks a column that a row does not have; never a cell of a row
Undefined == <<"undefined">>

\* the row holding the cells of c that are not Undefined
MkRow(c) == [k \in {j \in DOMAIN c : c[j] # Undefined} |-> c[k]]

\* JavaScript truthiness of row[k]: false for undefined and for ""
Truthy(row, k) == k \in DOMAIN row /\ row[k] # <<>>

\* the rows of the interleaving specifications: one row for every outcome
\* of the validator, two accepted rows whose sku is equal once trimmed, an
\* accepted row without the optional columns, and an accepted row with a
\* negative mrp and price
Rows ==
    { [sku |-> <<"A">>, name |-> <<"n">>, brand |-> <<"b">>, color |-> <<"r">>,
       size |-> <<"M">>, mrp |-> <<"9">>, price |-> <<"5">>, quantity |-> <<"2">>],
      [sku |-> <<" ", "A">>, name |-> <<"m", " ">>, brand |-> <<"b">>,
       mrp |-> <<"8">>, price |-> <<"8">>],
      [sku |-> <<"B">>, name |-> <<"n">>, brand |-> <<"b">>, color |-> <<>>,
       size |-> <<>>, mrp |-> <<"-", "5">>, price |-> <<"-", "9">>, quantity |-> <<>>],
      [sku |-> <<>>, name |-> <<"n">>, brand |-> <<"b">>, color |-> <<"r">>,
       size |-> <<"M">>, mrp |-> <<"9">>, price |-> <<"5">>, quantity |-> <<"2">>],
      [sku |-> <<"B">>, name |-> <<"n">>, brand |-> <<"b">>, color |-> <<"r">>,
       size |-> <<"M">>, mrp |-> <<"9">>, price |-> <<"x">>, quantity |-> <<"2">>],
      [sku |-> <<"A">>, name |-> <<"n">>, brand |-> <<"b">>, color |-> <<"r">>,
       size |-> <<"M">>, mrp |-> <<"5">>, price |-> <<"9">>, quantity |-> <<"-", "1">>],
      [sku |-> <<"B">>, name |-> <<"n">>, brand |-> <<"b">>, color |-> <<"r">>,
       size |-> <<"M">>, mrp |-> <<"9">>, price |-> <<"5">>, quantity |-> <<"-", "1">>] }

\* the cells of the single-row specification, by column
SkuCells == {Undefined, <<>>, <<" ">>, <<"A">>}

NameCells == {Undefined, <<>>, <<" ">>, <<"n">>}

BrandCells == {<<>>, <<"b">>}

ColorCells == {Undefined, <<"r">>}

MrpCells ==
    {Undefined, <<>>, <<" ">>, <<"9">>, <<"-", "5">>, <<"9", "x">>, <<"x">>,
     <<"9", ".", "5">>, InfinityLit}

PriceCells ==
    {<<>>, <<"5">>, <<"1", "2">>, <<"-", "9">>, <<"a", "b", "c">>,
     <<"5", ".", "5">>, InfinityLit}

QuantityCells ==
    {Undefined, <<>>, <<" ">>, <<"2">>, <<"-", "1">>, <<"3", ".", "7">>,
     <<"5", "x">>, <<"x">>}

AllRows ==
    { MkRow([sku |-> a, name |-> b, brand |-> c, color |-> d, size |-> d,
             mrp |-> e, price |-> f, quantity |-> g]) :
        a \in SkuCells, b \in NameCells, c \in BrandCells, d \in ColorCells,
        e \in MrpCells, f \in PriceCells, g \in QuantityCells }

-----------------------------------------------------------------------------
(* The row validator: the body of the 'data' handler.                      *)

MissingRequired == "Missing required fields."

InvalidNumber == "Invalid number format for MRP, Price, or Quantity."

PriceAboveMrp == "Price cannot be greater than MRP."

NegativeQuantity == "Quantity can't be negative."

Accepted == "accepted"

\* !sku || !name || !brand || !mrp || !price
missingRequired(row) ==
    \/ ~Truthy(row, "sku")
    \/ ~Truthy(row, "name")
    \/ ~Truthy(row, "brand")
    \/ ~Truthy(row, "mrp")
    \/ ~Truthy(row, "price")

\* row[k], undefined when the row lacks the column; parseFloat and parseInt
\* read an undefined argument as the string "undefined"
Get(row, k) == IF k \in DOMAIN row THEN row[k] ELSE Undefined

parsedMrp(row) == parseFloat(Get(row, "mrp"))

parsedPrice(row) == parseFloat(Get(row, "price"))

\* parseInt(quantity || 0, 10)
parsedQuantity(row) ==
    parseInt(IF Truthy(row, "quantity") THEN row.quantity ELSE <<"0">>)

invalidNumber(row) ==
    isNaN(parsedMrp(row)) \/ isNaN(parsedPrice(row)) \/ isNaN(parsedQuantity(row))

priceAboveMrp(row) == Gt(parsedPrice(row), parsedMrp(row))

negativeQuantity(row) == Lt(parsedQuantity(row), Num(0))

\* Outcome with the quantity check moved before the price check
Outcome_QuantityFirst(row) ==
    IF missingRequired(row) THEN MissingRequired
    ELSE IF invalidNumber(row) THEN InvalidNumber
    ELSE IF negativeQuantity(row) THEN NegativeQuantity
    ELSE IF priceAboveMrp(row) THEN PriceAboveMrp
    ELSE Accepted

\* Outcome without the quantity check
Outcome_NoQuantityCheck(row) ==
    IF missingRequired(row) THEN MissingRequired
    ELSE IF invalidNumber(row) THEN InvalidNumber
    ELSE IF priceAboveMrp(row) THEN PriceAboveMrp
    ELSE Accepted

\* the outcome the 'data' handler records for a row: the reason of the
\* first if statement that returns, or Accepted
Outcome(row) ==
    IF missingRequired(row) THEN MissingRequired
    ELSE IF invalidNumber(row) THEN InvalidNumber
    ELSE IF priceAboveMrp(row) THEN PriceAboveMrp
    ELSE IF negativeQuantity(row) THEN NegativeQuantity
    ELSE Accepted

\* { ...row, mrp: parsedMrp, price: parsedPrice, quantity: parsedQuantity }
Product(row) ==
    [k \in DOMAIN row \cup {"mrp", "price", "quantity"} |->
        IF k = "mrp" THEN parsedMrp(row)
        ELSE IF k = "price" THEN parsedPrice(row)
        ELSE IF k = "quantity" THEN parsedQuantity(row)
        ELSE row[k]]

\* onData with rowCount++ placed after the checks, so that only accepted
\* rows are counted
onData_CountsAccepted(st, row) ==
    IF Outcome(row) = Accepted
    THEN [st EXCEPT !.rowCount = @ + 1,
                    !.file = Append(@, row),
                    !.validProducts = Append(@, Product(row))]
    ELSE [st EXCEPT !.file = Append(@, row),
                    !.failedValidation =
                        Append(@, [row |-> st.rowCount, data |-> row,
                                   reason |-> Outcome(row)])]

\* the 'data' handler, on the closure variables of one upload
onData(st, row) ==
    LET n == st.rowCount + 1
        o == Outcome(row)
    IN  IF o = Accepted
        THEN [st EXCEPT !.rowCount = n,
                        !.file = Append(@, row),
                        !.validProducts = Append(@, Product(row))]
        ELSE [st EXCEPT !.rowCount = n,
                        !.file = Append(@, row),
                        !.failedValidation =
                            Append(@, [row |-> n, data |-> row, reason |-> o])]

-----------------------------------------------------------------------------
(* The catalog store: the products collection behind the Product model.    *)

\* the schema's String paths, all declared with trim: true
StringPaths == {"sku", "name", "brand", "color", "size"}

NumberPaths == {"mrp", "price", "quantity"}

\* the value Mongoose writes for a $set of schema path k: String paths go
\* through the trim setter, Number paths are written as they are
CastPath(k, val) == IF k \in StringPaths THEN Trim(val) ELSE val

\* the update document of an operation, cast to the schema
CastUpdate(update) ==
    [k \in DOMAIN update \cap (StringPaths \cup NumberPaths) |-> CastPath(k, update[k])]

\* e with the fields of s written over it
Assign(e, s) ==
    [k \in DOMAIN e \cup DOMAIN s |-> IF k \in DOMAIN s THEN s[k] ELSE e[k]]

\* the positions of the entries of cat that match the filter { sku: ... }
Matching(cat, filter) ==
    {i \in 1..Len(cat) : cat[i].sku = CastPath("sku", filter.sku)}

\* the entry an upsert inserts when nothing matches: the filter's equality
\* fields, the $set fields and both timestamps
Inserted(op, now) ==
    Assign([sku |-> CastPath("sku", op.filter.sku), createdAt |-> now, updatedAt |-> now],
           CastUpdate(op.update))

\* Updated as a replacement of the whole entry
Updated_ReplacesEntry(entry, op, now) == Inserted(op, now)

\* the entry an update leaves: the $set fields and updatedAt written over it
Updated(entry, op, now) ==
    Assign(entry, Assign(CastUpdate(op.update), [updatedAt |-> now]))

\* updateOne as a plain insert
updateOne_InsertsOnly(cat, op, now) == Append(cat, Inserted(op, now))

\* updateOne { filter, update: { $set }, upsert: true } on the collection:
\* the first matching entry is updated in place, and when there is none a
\* new entry is added at the end.  Validators do not run on updateOne.
updateOne(cat, op, now) ==
    IF Matching(cat, op.filter) # {}
    THEN LET i == CHOOSE j \in Matching(cat, op.filter) :
                      \A l \in Matching(cat, op.filter) : j <= l
         IN  [cat EXCEPT ![i] = Updated(cat[i], op, now)]
    ELSE Append(cat, Inserted(op, now))

\* an ordered bulkWrite that runs to its end: the operations one after the
\* other, all stamped with the time of the call
RECURSIVE bulkWrite(_, _, _)
bulkWrite(cat, ops, now) ==
    IF ops = <<>> THEN cat
    ELSE bulkWrite(updateOne(cat, Head(ops), now), Tail(ops), now)

-----------------------------------------------------------------------------
(* One upload request: the closure of uploadProducts.                      *)

NoResponse == [status |-> 0]

\* pc: "idle" before the request arrives, "streaming" while the parser emits
\* rows, "awaiting" while the 'end' handler waits for Product.bulkWrite,
\* "closed" once a response was sent.  hasFile: req.file is set.  file: the
\* rows of req.file.buffer decoded so far.  calls, operations, applied, failed: the bulkWrite calls
\* this upload issued, the operations of the call, how many of them the
\* store has applied, and whether the store rejected the call.
\* connected: the client's socket is open.
Fresh ==
    [pc |-> "idle", connected |-> TRUE, hasFile |-> FALSE, file |-> <<>>, rowCount |-> 0,
     validProducts |-> <<>>, failedValidation |-> <<>>,
     calls |-> 0, operations |-> <<>>, now |-> 0, applied |-> 0, failed |-> FALSE,
     res |-> NoResponse]

\* validProducts.map(product => ({ updateOne: { filter, update, upsert } }))
Operations(validProducts) ==
    [i \in 1..Len(validProducts) |->
        [filter |-> [sku |-> validProducts[i].sku],
         update |-> validProducts[i],
         upsert |-> TRUE]]

NoFile == [status |-> 400, message |-> "No file found. Please upload a CSV file."]

Summary(st) ==
    [status |-> 201, message |-> "CSV data processed successfully.",
     stored |-> Len(st.validProducts), failed |-> Len(st.failedValidation),
     failedDetails |-> st.failedValidation]

StoreFailure == [status |-> 500, message |-> "Error storing Product Details in the database."]

ParseFailure == [status |-> 500, message |-> "Error in parsing CSV file."]

-----------------------------------------------------------------------------
(* One listing request: getAllProducts.                                    *)

\* the page and the page size used when the query gives none
DefaultPage == 1

DefaultLimit == 10

\* x || d on the result of parseInt: d when x is NaN or 0, else the integer
OrDefault(x, d) == IF isNaN(x) \/ x = Num(0) THEN d ELSE x.v \div 10

\* parseInt(req.query.page, 10) || 1
page(query) == OrDefault(parseInt(Get(query, "page")), DefaultPage)

\* parseInt(req.query.limit, 10) || 10
limit(query) == OrDefault(parseInt(Get(query, "limit")), DefaultLimit)

\* skip computed from the page alone, without the step back to its start
skip_PageTimesLimit(query) == page(query) * limit(query)

\* (page - 1) * limit
skip(query) == (page(query) - 1) * limit(query)

\* Math.ceil(a / b) for a >= 0 and b > 0
ceil(a, b) == (a + b - 1) \div b

\* Product.find({}).skip(s).limit(l) on the catalog cat, for s >= 0 and
\* l > 0: the entries in storage order, the first s left out, at most l
find(cat, s, l) ==
    SubSeq(cat, s + 1, IF s + l < Len(cat) THEN s + l ELSE Len(cat))

\* the 200 response of a request that read products and counted total
Listing(query, products, total) ==
    [status |-> 200, totalProducts |-> total,
     totalPages |-> ceil(total, limit(query)),
     currentPage |-> page(query), products |-> products]

FetchFailure == [status |-> 500, message |-> "Error fetching products."]

\* pc: "idle" before the request arrives, "find" while the handler waits for
\* Product.find, "count" while it waits for Product.countDocuments, "closed"
\* once a response was sent.  query: req.query, the parameters the URL gives.
IdleGet == [pc |-> "idle", query |-> MkRow([page |-> Undefined, limit |-> Undefined]),
            products |-> <<>>, res |-> NoResponse]

Init ==
    /\ up = [u \in Uploads |-> Fresh]
    /\ catalog = <<>>
    /\ clock = 0
    /\ get = IdleGet

\* RequestNoFile without the return: the handler goes on to parse
RequestNoFile_NoReturn(u) ==
    /\ up[u].pc = "idle"
    /\ \A v \in Uploads : v < u => up[v].pc # "idle"
    /\ up' = [up EXCEPT ![u].pc = "streaming", ![u].res = NoFile]
    /\ UNCHANGED <<catalog, clock, get>>

\* POST /api/upload arrives without a file: the handler answers 400 and
\* returns before it declares anything else.
RequestNoFile(u) ==
    /\ up[u].pc = "idle"
    /\ \A v \in Uploads : v < u => up[v].pc # "idle"
    /\ up' = [up EXCEPT ![u].pc = "closed", ![u].res = NoFile]
    /\ UNCHANGED <<catalog, clock, get>>

\* POST /api/upload arrives with a file: the handler sets up its closure
\* variables, pipes the buffer into the parser and registers its handlers.
RequestFile(u) ==
    /\ up[u].pc = "idle"
    /\ \A v \in Uploads : v < u => up[v].pc # "idle"
    /\ up' = [up EXCEPT ![u].pc = "streaming", ![u].hasFile = TRUE]
    /\ UNCHANGED <<catalog, clock, get>>

\* Data with rowCount declared outside the handler, shared by all uploads
Data_SharedRowCount(u, row) ==
    /\ up[u].pc = "streaming"
    /\ up' = [v \in Uploads |->
                IF v = u THEN onData(up[u], row)
                ELSE [up[v] EXCEPT !.rowCount = @ + 1]]
    /\ UNCHANGED <<catalog, clock, get>>

\* the parser emits 'data' with the next row of the file
Data(u, row) ==
    /\ up[u].pc = "streaming"
    /\ up' = [up EXCEPT ![u] = onData(up[u], row)]
    /\ UNCHANGED <<catalog, clock, get>>

\* EndWrite without the test validProducts.length > 0
EndWrite_NoLengthTest(u) ==
    /\ up[u].pc = "streaming"
    /\ clock' = clock + 1
    /\ up' = [up EXCEPT ![u].pc = "awaiting",
                        ![u].calls = @ + 1,
                        ![u].operations = Operations(up[u].validProducts),
                        ![u].now = clock + 1]
    /\ UNCHANGED <<catalog, get>>

\* the 'end' handler up to its await: with accepted rows it hands one batch
\* to Product.bulkWrite, which stamps it with the current time
EndWrite(u) ==
    /\ up[u].pc = "streaming"
    /\ Len(up[u].validProducts) > 0
    /\ clock' = clock + 1
    /\ up' = [up EXCEPT ![u].pc = "awaiting",
                        ![u].calls = @ + 1,
                        ![u].operations = Operations(up[u].validProducts),
                        ![u].now = clock + 1]
    /\ UNCHANGED <<catalog, get>>

\* the 'end' handler with no accepted row: no store call, 201 at once
EndEmpty(u) ==
    /\ up[u].pc = "streaming"
    /\ Len(up[u].validProducts) = 0
    /\ up' = [up EXCEPT ![u].pc = "closed", ![u].res = Summary(up[u])]
    /\ UNCHANGED <<catalog, clock, get>>

\* Error on a stream that goes on to emit 'end'
Error_StreamGoesOn(u) ==
    /\ up[u].pc = "streaming"
    /\ up[u].res = NoResponse
    /\ up' = [up EXCEPT ![u].res = ParseFailure]
    /\ UNCHANGED <<catalog, clock, get>>

\* the parser emits 'error': 500, and the destroyed stream emits no 'end'
Error(u) ==
    /\ up[u].pc = "streaming"
    /\ up' = [up EXCEPT ![u].pc = "closed", ![u].res = ParseFailure]
    /\ UNCHANGED <<catalog, clock, get>>

\* the store applies the next operation of an ordered bulkWrite
StoreApply(u) ==
    /\ up[u].pc = "awaiting"
    /\ ~up[u].failed
    /\ up[u].applied < Len(up[u].operations)
    /\ catalog' = updateOne(catalog, up[u].operations[up[u].applied + 1], up[u].now)
    /\ up' = [up EXCEPT ![u].applied = @ + 1]
    /\ UNCHANGED <<clock, get>>

\* the store fails on the next operation: an ordered bulkWrite stops there
\* and rejects, leaving what it applied before
StoreFail(u) ==
    /\ up[u].pc = "awaiting"
    /\ ~up[u].failed
    /\ up[u].applied < Len(up[u].operations)
    /\ up' = [up EXCEPT ![u].failed = TRUE]
    /\ UNCHANGED <<catalog, clock, get>>

\* the 'end' handler after its await: 201 with the summary
EndResolved(u) ==
    /\ up[u].pc = "awaiting"
    /\ ~up[u].failed
    /\ up[u].applied = Len(up[u].operations)
    /\ up' = [up EXCEPT ![u].pc = "closed", ![u].res = Summary(up[u])]
    /\ UNCHANGED <<catalog, clock, get>>

\* the 'end' handler's catch: 500
EndRejected(u) ==
    /\ up[u].pc = "awaiting"
    /\ up[u].failed
    /\ up' = [up EXCEPT ![u].pc = "closed", ![u].res = StoreFailure]
    /\ UNCHANGED <<catalog, clock, get>>

\* Disconnect stopping the parser, as a 'close' listener would
Disconnect_Aborts(u) ==
    /\ up[u].pc = "streaming"
    /\ up[u].connected
    /\ up' = [up EXCEPT ![u].connected = FALSE, ![u].pc = "closed"]
    /\ UNCHANGED <<catalog, clock, get>>

\* the client closes its connection while the rows of its upload are being
\* processed; the handler registers no listener for it
Disconnect(u) ==
    /\ up[u].pc = "streaming"
    /\ up[u].connected
    /\ up' = [up EXCEPT ![u].connected = FALSE]
    /\ UNCHANGED <<catalog, clock, get>>

Next ==
    \E u \in Uploads :
        \/ RequestNoFile(u)
        \/ RequestFile(u)
        \/ \E row \in Rows : up[u].rowCount < MaxRows /\ Data(u, row)
        \/ EndWrite(u)
        \/ EndEmpty(u)
        \/ Error(u)
        \/ StoreApply(u)
        \/ StoreFail(u)
        \/ EndResolved(u)
        \/ EndRejected(u)

Spec == Init /\ [][Next]_vars

\* the uploads of Spec, with clients that may disconnect
NextCancel ==
    \/ Next
    \/ \E u \in Uploads : Disconnect(u)

SpecCancel == Init /\ [][NextCancel]_vars

\* One upload of a file of at most one row, drawn from all the rows the
\* cells of the model make: the specification of the claims about the
\* validator.
NextRow ==
    \/ RequestFile(1)
    \/ up[1].pc = "streaming" /\ up[1].rowCount = 0 /\ \E row \in AllRows : Data(1, row)
    \/ EndWrite(1)
    \/ EndEmpty(1)
    \/ StoreApply(1)
    \/ EndResolved(1)

SpecRow == Init /\ [][NextRow]_vars

\* The same file uploaded twice in sequence, both uploads completing: the
\* second request arrives after the first one's 201 and its parser emits
\* the rows the first one decoded.
NextTwice ==
    \/ RequestFile(1)
    \/ \E row \in Rows : up[1].rowCount < MaxRows /\ Data(1, row)
    \/ EndWrite(1)
    \/ EndEmpty(1)
    \/ StoreApply(1)
    \/ EndResolved(1)
    \/ up[1].res.status = 201 /\ RequestFile(2)
    \/ up[2].rowCount < Len(up[1].file) /\ Data(2, up[1].file[up[2].rowCount + 1])
    \/ up[2].rowCount = Len(up[1].file) /\ EndWrite(2)
    \/ up[2].rowCount = Len(up[1].file) /\ EndEmpty(2)
    \/ StoreApply(2)
    \/ EndResolved(2)

SpecTwice == Init /\ [][NextTwice]_vars

\* The listing requests, on catalogs filled the way the listing tests fill
\* them: Product.insertMany of the products SKU-1 .. SKU-n into an empty
\* collection, Product.deleteMany({}) to empty it.  The tests await every
\* call, so the catalog is written only while no listing is in progress.

\* largest number of products inserted at once
MaxEntries == 11

\* String(i) for i >= 0
RECURSIVE Decimal(_)
Decimal(i) ==
    LET d == CHOOSE c \in Digits : DigitVal(c) = i % 10
    IN  IF i < 10 THEN <<d>> ELSE Append(Decimal(i \div 10), d)

\* the document insertMany stores for the i-th product of the tests
TestProduct(i, now) ==
    [sku |-> <<"S", "K", "U", "-">> \o Decimal(i),
     name |-> <<"P", "r", "o", "d", "u", "c", "t", " ">> \o Decimal(i),
     brand |-> <<"T", "e", "s", "t", "B", "r", "a", "n", "d">>,
     mrp |-> Num(1000), price |-> Num(800), quantity |-> Num(100),
     createdAt |-> now, updatedAt |-> now]

InsertMany(n) ==
    /\ get.pc \in {"idle", "closed"}
    /\ catalog = <<>>
    /\ catalog' = [i \in 1..n |-> TestProduct(i, clock)]
    /\ UNCHANGED <<up, clock, get>>

DeleteMany ==
    /\ get.pc \in {"idle", "closed"}
    /\ catalog # <<>>
    /\ catalog' = <<>>
    /\ UNCHANGED <<up, clock, get>>

\* GET /api/products arrives: the handler runs up to its first await
GetRequest(p, l) ==
    /\ get.pc \in {"idle", "closed"}
    /\ get' = [IdleGet EXCEPT !.pc = "find", !.query = MkRow([page |-> p, limit |-> l])]
    /\ UNCHANGED <<up, catalog, clock>>

\* Product.find settles: the store refuses a negative skip, which the catch
\* block answers; otherwise the handler goes on to count
GetFind ==
    /\ get.pc = "find"
    /\ get' = IF skip(get.query) < 0
              THEN [get EXCEPT !.pc = "closed", !.res = FetchFailure]
              ELSE [get EXCEPT !.pc = "count",
                               !.products = find(catalog, skip(get.query), limit(get.query))]
    /\ UNCHANGED <<up, catalog, clock>>

\* Product.countDocuments settles and the handler responds
GetCount ==
    /\ get.pc = "count"
    /\ get' = [get EXCEPT !.pc = "closed",
                          !.res = Listing(get.query, get.products, Len(catalog))]
    /\ UNCHANGED <<up, catalog, clock>>

\* the store rejects the query the handler is waiting for
GetFail ==
    /\ get.pc \in {"find", "count"}
    /\ get' = [get EXCEPT !.pc = "closed", !.res = FetchFailure]
    /\ UNCHANGED <<up, catalog, clock>>

\* the values of the page and limit parameters of the listing requests
PageCells == {Undefined, <<"0">>, <<"1">>, <<"2">>, <<"3">>, <<"-", "1">>, <<"2", "x">>}

LimitCells == {Undefined, <<"0">>, <<"1">>, <<"2">>, <<"5">>, <<"1", "2">>}

NextList ==
    \/ \E n \in 1..MaxEntries : InsertMany(n)
    \/ DeleteMany
    \/ \E p \in PageCells, l \in LimitCells : GetRequest(p, l)
    \/ GetFind
    \/ GetCount
    \/ GetFail

SpecList == Init /\ [][NextList]_vars

-----------------------------------------------------------------------------
(* Vocabulary of the properties.                                           *)

Reasons == {MissingRequired, InvalidNumber, PriceAboveMrp, NegativeQuantity}

\* the four checks in evaluation order, each evaluated on its own
Fails(k, row) ==
    CASE k = 1 -> missingRequired(row)
      [] k = 2 -> invalidNumber(row)
      [] k = 3 -> priceAboveMrp(row)
      [] k = 4 -> negativeQuantity(row)

ReasonOf(k) ==
    CASE k = 1 -> MissingRequired
      [] k = 2 -> InvalidNumber
      [] k = 3 -> PriceAboveMrp
      [] k = 4 -> NegativeQuantity

FailingChecks(row) == {k \in 1..4 : Fails(k, row)}

FirstFailing(row) ==
    CHOOSE k \in FailingChecks(row) : \A j \in FailingChecks(row) : k <= j

\* the positions of failedValidation that carry ordinal i
RejectionsOf(st, i) ==
    {j \in 1..Len(st.failedValidation) : st.failedValidation[j].row = i}

RejectedOrdinals(st) ==
    {st.failedValidation[j].row : j \in 1..Len(st.failedValidation)}

\* the ordinals decoded so far that are not rejected, in ascending order
AcceptedOrdinals(st) ==
    SelectSeq([i \in 1..st.rowCount |-> i], LAMBDA i : i \notin RejectedOrdinals(st))

Closed201(u) == up[u].pc = "closed" /\ up[u].res.status = 201

\* C1: every decoded row has exactly one outcome: it is accepted, or it is
\* rejected once, with the reason of the first check it fails in the order
\* required-fields, numeric-format, price-ceiling, non-negative-quantity.
C1_OneOutcomeFirstReason ==
    \A u \in Uploads :
        LET st == up[u]
        IN  /\ Len(st.file) = st.rowCount
            /\ Len(st.validProducts) + Len(st.failedValidation) = st.rowCount
            /\ \A i \in 1..st.rowCount :
                 /\ Cardinality(RejectionsOf(st, i)) <= 1
                 /\ (RejectionsOf(st, i) = {}) <=> (FailingChecks(st.file[i]) = {})
                 /\ \A j \in RejectionsOf(st, i) :
                      /\ st.failedValidation[j].reason \in Reasons
                      /\ st.failedValidation[j].reason =
                             ReasonOf(FirstFailing(st.file[i]))

\* a 201 summary rejects a row that fails both the price ceiling and the
\* quantity check, with the price-ceiling reason
C1_Witness ==
    \E u \in Uploads :
        /\ Closed201(u)
        /\ \E j \in 1..Len(up[u].res.failedDetails) :
             LET f == up[u].res.failedDetails[j]
             IN  /\ FailingChecks(f.data) = {3, 4}
                 /\ f.reason = PriceAboveMrp

\* C2: the batch handed to Product.bulkWrite holds exactly the rows that
\* failed no check, in file order: no rejected ordinal is in it, and every
\* record has price <= mrp, quantity >= 0 and non-empty sku, name, brand.
C2_BatchOnlyValid ==
    \A u \in Uploads :
        LET st  == up[u]
            acc == AcceptedOrdinals(st)
        IN  st.calls > 0 =>
              /\ Len(st.operations) = Len(acc)
              /\ \A j \in 1..Len(st.operations) :
                   LET p == st.operations[j].update
                   IN  /\ acc[j] \notin RejectedOrdinals(st)
                       /\ FailingChecks(st.file[acc[j]]) = {}
                       /\ \A f \in {st.failedValidation[l] : l \in 1..Len(st.failedValidation)} :
                            p # Product(f.data)
                       /\ \A k \in {"sku", "name", "brand"} :
                            /\ k \in DOMAIN p
                            /\ p[k] = st.file[acc[j]][k]
                            /\ p[k] # <<>>
                       /\ Le(p.price, p.mrp)
                       /\ Le(Num(0), p.quantity)
                       /\ p.mrp = parseFloat(st.file[acc[j]].mrp)
                       /\ p.price = parseFloat(st.file[acc[j]].price)

\* a batch of one record was handed over by an upload that rejected a row
C2_Witness ==
    \E u \in Uploads :
        /\ up[u].calls = 1
        /\ Len(up[u].operations) = 1
        /\ Len(up[u].failedValidation) = 1

\* C3: after k rows, every ordinal 1..k is in exactly one of the accepted
\* and the rejected list; the rejected list is in strictly ascending
\* ordinal order and carries the rows of those ordinals; an upload that has
\* not reached end of stream or a stream error is still listening for rows,
\* whatever it rejected; and the 201 summary reports failed and stored as
\* the sizes of the two lists, adding up to the number of data rows, with
\* failedDetails in ascending row order.
C3_PartitionInFileOrder ==
    \A u \in Uploads :
        LET st  == up[u]
            acc == AcceptedOrdinals(st)
            rej == st.failedValidation
        IN  /\ Len(st.file) = st.rowCount
            /\ \A j \in 1..Len(rej) :
                 /\ rej[j].row \in 1..st.rowCount
                 /\ rej[j].data = st.file[rej[j].row]
                 /\ FailingChecks(rej[j].data) # {}
                 /\ j > 1 => rej[j - 1].row < rej[j].row
            /\ Len(acc) = Len(st.validProducts)
            /\ \A j \in 1..Len(acc) :
                 /\ FailingChecks(st.file[acc[j]]) = {}
                 /\ st.validProducts[j].sku = st.file[acc[j]].sku
            /\ Len(st.validProducts) + Len(rej) = st.rowCount
            /\ (st.hasFile /\ st.res = NoResponse /\ st.calls = 0) => st.pc = "streaming"
            /\ Closed201(u) =>
                 /\ st.res.failed = Len(rej)
                 /\ st.res.stored = Len(acc)
                 /\ st.res.stored + st.res.failed = Len(st.file)
                 /\ st.res.failedDetails = rej

\* a 201 summary of a file whose first row was rejected and whose second
\* row was accepted
C3_Witness ==
    \E u \in Uploads :
        /\ Closed201(u)
        /\ up[u].res.stored = 1
        /\ up[u].res.failed = 1
        /\ up[u].res.failedDetails[1].row = 1

\* C5: a request without a file is answered 400 'No file found' and
\* nothing else happens for it: no row is decoded or validated, the row
\* counter stays 0, no store call is made, and the step leaves the catalog
\* unchanged.
C5_NoFile400 ==
    [][\A u \in Uploads :
         (up'[u].pc # "idle" /\ ~up'[u].hasFile) =>
            /\ up'[u].pc = "closed"
            /\ up'[u].res = NoFile
            /\ up'[u].rowCount = 0
            /\ up'[u].file = <<>>
            /\ up'[u].validProducts = <<>>
            /\ up'[u].failedValidation = <<>>
            /\ up'[u].calls = 0
            /\ up'[u].applied = 0
            /\ up[u].pc = "idle" => catalog' = catalog /\ clock' = clock]_vars

\* a non-empty catalog next to an upload that was answered 400
C5_Witness ==
    \E u \in Uploads : up[u].res = NoFile /\ catalog # <<>>

\* C6: an upload calls the store at most once, and only at end of stream:
\* with accepted rows the one batch carries one upsert per accepted row,
\* keyed on its sku; without, there is no call and the 201 reports stored
\* = 0; while an upload is decoding rows the store has applied nothing of
\* it.
C6_OneBatchAtEnd ==
    \A u \in Uploads :
        LET st == up[u]
        IN  /\ st.calls <= 1
            /\ st.pc \in {"idle", "streaming"} =>
                 st.calls = 0 /\ st.applied = 0 /\ st.operations = <<>>
            /\ st.calls = 1 =>
                 /\ st.validProducts # <<>>
                 /\ Len(st.operations) = Len(st.validProducts)
                 /\ \A j \in 1..Len(st.operations) :
                      /\ st.operations[j].filter = [sku |-> st.validProducts[j].sku]
                      /\ st.operations[j].update = st.validProducts[j]
                      /\ st.operations[j].upsert
            /\ st.applied <= Len(st.operations)
            /\ Closed201(u) =>
                 /\ st.calls = (IF st.validProducts = <<>> THEN 0 ELSE 1)
                 /\ st.applied = Len(st.validProducts)
                 /\ st.validProducts = <<>> => st.res.stored = 0

\* one upload answered 201 with stored = 0 and no store call, another
\* answered 201 after its batch of two
C6_Witness ==
    \E u, v \in Uploads :
        /\ Closed201(u) /\ up[u].calls = 0 /\ up[u].res.stored = 0 /\ up[u].rowCount > 0
        /\ Closed201(v) /\ up[v].calls = 1 /\ up[v].applied = 2

\* C7: an upload whose stream failed is answered with the 500 parse
\* failure, which carries no counts and differs from the persistence
\* failure; it makes no batch call, so nothing of it reaches the store.
C7_DecodeErrorAborts ==
    \A u \in Uploads :
        up[u].res.status = 500 /\ up[u].res.message = ParseFailure.message =>
            /\ up[u].pc = "closed"
            /\ DOMAIN up[u].res = {"status", "message"}
            /\ up[u].res.message # StoreFailure.message
            /\ up[u].calls = 0
            /\ up[u].operations = <<>>
            /\ up[u].applied = 0
            /\ \A i \in 1..Len(catalog) : catalog[i].updatedAt # up[u].now

\* a stream that failed after a row was accepted, the catalog still empty
C7_Witness ==
    \E u \in Uploads :
        /\ up[u].res = ParseFailure
        /\ up[u].validProducts # <<>>
        /\ catalog = <<>>

\* the schema paths an upload may replace
Mutable == {"name", "brand", "color", "size", "mrp", "price", "quantity"}

\* the catalog without the modification timestamps
Stable(cat) ==
    [i \in 1..Len(cat) |-> [k \in DOMAIN cat[i] \ {"updatedAt"} |-> cat[i][k]]]

Skus(cat) == {cat[i].sku : i \in 1..Len(cat)}

\* C4: uploading a file a second time, after its first upload was answered
\* 201, leaves the catalog as the first upload left it (the same entries
\* with the same skus, field values and creation timestamps, in the same
\* number), and the second 201 reports the counts and details of the first.
C4_UploadTwice ==
    /\ (Closed201(1) /\ up[2].pc = "idle") =>
          catalog = bulkWrite(<<>>, up[1].operations, up[1].now)
    /\ Closed201(2) =>
          /\ up[2].file = up[1].file
          /\ Stable(catalog) = Stable(bulkWrite(<<>>, up[1].operations, up[1].now))
          /\ Len(catalog) = Cardinality(Skus(catalog))
          /\ Skus(catalog) =
                {Trim(up[1].validProducts[j].sku) : j \in 1..Len(up[1].validProducts)}
          /\ up[2].res.stored = up[1].res.stored
          /\ up[2].res.failed = up[1].res.failed
          /\ up[2].res.failedDetails = up[1].res.failedDetails

\* the second upload of a file with two accepted rows of one sku was
\* answered 201, and the catalog holds the one entry, modified after it
\* was created
C4_Witness ==
    /\ Closed201(2)
    /\ up[2].res.stored = 2
    /\ Len(catalog) = 1
    /\ catalog[1].createdAt < catalog[1].updatedAt

\* the effect of one upsert that takes the catalog from before to after
UpsertPost(before, after, op, now) ==
    LET key == Trim(op.filter.sku)
        old == {i \in 1..Len(before) : before[i].sku = key}
        new == {i \in 1..Len(after) : after[i].sku = key}
        set == op.update
    IN  /\ Cardinality(new) = 1
        /\ Len(after) = Len(before) + (IF old = {} THEN 1 ELSE 0)
        /\ \A i \in 1..Len(before) : i \notin old => after[i] = before[i]
        /\ \A i \in new :
             /\ old # {} => i \in old /\ after[i].createdAt = before[i].createdAt
             /\ old = {} => i = Len(after) /\ after[i].createdAt = now
             /\ after[i].updatedAt = now
             /\ \A k \in Mutable :
                  IF k \in DOMAIN set
                  THEN k \in DOMAIN after[i] /\ after[i][k] = CastPath(k, set[k])
                  ELSE IF i \in old /\ k \in DOMAIN before[i]
                       THEN k \in DOMAIN after[i] /\ after[i][k] = before[i][k]
                       ELSE k \notin DOMAIN after[i]

\* C8 as stated: once an upload is answered 201, for every row it accepted
\* whose sku was in the catalog before the upload's batch (its entry is
\* older than the batch), the catalog holds exactly one entry of the row's
\* sku, and that entry, when this upload's batch was the last to write it,
\* has the row's value in every mutable field the row carries (String
\* fields compared trimmed, numeric fields parsed).
C8_EveryAcceptedRowReplaces ==
    \A u \in Uploads :
        Closed201(u) =>
            \A j \in 1..Len(up[u].validProducts) :
                LET p == up[u].validProducts[j]
                    E == {i \in 1..Len(catalog) : catalog[i].sku = Trim(p.sku)}
                IN  /\ Cardinality(E) = 1
                    /\ \A i \in E :
                         (catalog[i].createdAt < up[u].now
                             /\ catalog[i].updatedAt = up[u].now) =>
                            \A k \in Mutable \cap DOMAIN p :
                               /\ k \in DOMAIN catalog[i]
                               /\ catalog[i][k] = CastPath(k, p[k])

\* C8 amended: every upsert the store applies leaves exactly one entry of
\* the row's trimmed sku: an entry of that sku keeps its place and creation
\* timestamp, otherwise one entry is added at the end; in it the fields the
\* row carries have the row's values (String fields trimmed) and the other
\* fields are as before; every other entry is unchanged.  The catalog
\* changes in no other way and never holds two entries of one sku.
C8_UpsertPerOperation ==
    [][/\ Len(catalog') = Cardinality(Skus(catalog'))
       /\ \A u \in Uploads :
            up'[u].applied # up[u].applied =>
               /\ up'[u].applied = up[u].applied + 1
               /\ UpsertPost(catalog, catalog', up[u].operations[up[u].applied + 1],
                             up[u].now)
       /\ catalog' # catalog => \E u \in Uploads : up'[u].applied # up[u].applied]_vars

\* an entry created by one upload and updated by a later one, which set
\* its name and left the color it did not carry
C8_Witness ==
    \E i \in 1..Len(catalog) :
        /\ catalog[i].createdAt < catalog[i].updatedAt
        /\ catalog[i].name = <<"m">>
        /\ "color" \in DOMAIN catalog[i]
        /\ catalog[i].color = <<"r">>

\* C9 as stated: once the client of a streaming upload has disconnected,
\* the upload processes no further row and issues no batch call.
C9_DisconnectStopsUpload ==
    [][\A u \in Uploads :
         (~up[u].connected /\ up[u].pc = "streaming") =>
            /\ up'[u].rowCount = up[u].rowCount
            /\ up'[u].calls = up[u].calls]_vars

\* C9 amended: a client disconnect while rows are being processed changes
\* nothing but the connection: the rows, the counters, the lists and the
\* catalog are as before, and the upload goes on to end of stream like any
\* other: once closed it has sent its response, and a 201 means that its
\* batch, if it accepted a row, was called once and applied in full.
C9_DisconnectIgnored ==
    [][\A u \in Uploads :
         /\ (up[u].connected /\ ~up'[u].connected) =>
               /\ up'[u] = [up[u] EXCEPT !.connected = FALSE]
               /\ catalog' = catalog
               /\ clock' = clock
         /\ (~up'[u].connected /\ up'[u].pc = "closed") =>
               /\ up'[u].res # NoResponse
               /\ up'[u].res.status = 201 =>
                    /\ up'[u].calls = (IF up'[u].validProducts = <<>> THEN 0 ELSE 1)
                    /\ up'[u].applied = Len(up'[u].validProducts)]_vars

\* an upload whose client disconnected was answered 201 after its batch
\* changed the catalog
C9_Witness ==
    \E u \in Uploads :
        /\ ~up[u].connected
        /\ Closed201(u)
        /\ up[u].applied > 0
        /\ \E i \in 1..Len(catalog) : catalog[i].updatedAt = up[u].now

\* the closure variables of an upload that decodes the rows of file alone
RECURSIVE Alone(_)
Alone(file) ==
    IF file = <<>> THEN Fresh
    ELSE onData(Alone(SubSeq(file, 1, Len(file) - 1)), file[Len(file)])

\* C10: whatever the interleaving, the row counter, the accepted list and
\* the rejected list of an upload are those it has when it decodes its
\* rows alone, and so are its batch and its 201 summary.
C10_UploadsIndependent ==
    \A u \in Uploads :
        LET a == Alone(up[u].file)
        IN  /\ up[u].rowCount = a.rowCount
            /\ up[u].validProducts = a.validProducts
            /\ up[u].failedValidation = a.failedValidation
            /\ up[u].calls > 0 => up[u].operations = Operations(a.validProducts)
            /\ Closed201(u) => up[u].res = Summary(a)

\* two uploads in progress at once, each with a rejected second row, one
\* of them after an accepted first row
C10_Witness ==
    \E u, v \in Uploads :
        /\ u # v
        /\ up[u].pc = "streaming" /\ up[v].pc = "streaming"
        /\ Len(up[u].failedValidation) = 1 /\ up[u].failedValidation[1].row = 2
        /\ Len(up[v].failedValidation) = 2 /\ up[v].failedValidation[2].row = 2

\* the constraints productSchema declares on a persisted product: min: 0 on
\* mrp, price and quantity, and the validator value <= this.mrp on price
SchemaValid(e) ==
    /\ Le(Num(0), e.mrp)
    /\ Le(Num(0), e.price)
    /\ Le(e.price, e.mrp)
    /\ Le(Num(0), e.quantity)

\* C11: every catalog entry written through upload satisfies mrp >= 0,
\* price >= 0, price <= mrp and quantity >= 0, so a row with a negative mrp
\* or price never ends up as a catalog entry.
C11_EntriesSatisfySchema ==
    \A i \in 1..Len(catalog) : SchemaValid(catalog[i])

\* C13: a decoded row is rejected with 'Missing required fields.' whenever
\* one of sku, name, brand, mrp, price is absent, empty or made of white
\* space only; when none of the five is, the row is not rejected for that
\* reason whatever its quantity, color and size are; and an accepted row
\* whose quantity is absent or empty has quantity 0.
C13_RequiredFields ==
    \A u \in Uploads : \A i \in 1..Len(up[u].file) :
        LET row      == up[u].file[i]
            blank(k) == k \notin DOMAIN row \/ Trim(row[k]) = <<>>
            required == {"sku", "name", "brand", "mrp", "price"}
            missing  == [row |-> i, data |-> row, reason |-> MissingRequired]
        IN  /\ (\E k \in required : blank(k)) =>
                \E j \in 1..Len(up[u].failedValidation) :
                    up[u].failedValidation[j] = missing
            /\ (\A k \in required : ~blank(k)) =>
                \A j \in 1..Len(up[u].failedValidation) :
                    up[u].failedValidation[j] # missing
            /\ ("quantity" \notin DOMAIN row \/ row.quantity = <<>>) =>
                \A j \in 1..Len(up[u].validProducts) :
                    up[u].validProducts[j].sku = Get(row, "sku") =>
                        up[u].validProducts[j].quantity = Num(0)

\* C14: a decoded row that passes the required-fields check gets past the
\* numeric-format check only if mrp and price each parse as a finite number
\* and quantity (0 when absent or empty) is an integer; any other such row
\* is rejected with 'Invalid number format for MRP, Price, or Quantity.'
\* A cell is a finite number when it is a decimal literal from end to end,
\* which is when parsing it consumes the whole trimmed cell.
C14_NumericFormat ==
    \A u \in Uploads : \A i \in 1..Len(up[u].file) :
        LET row       == up[u].file[i]
            literal(s) ==
                LET a  == Trim(s)
                    b  == IF a # <<>> /\ Head(a) \in {"-", "+"} THEN Tail(a) ELSE a
                    ni == Span(b, Digits)
                    c  == From(b, ni + 1)
                    nf == IF c # <<>> /\ Head(c) = "." THEN Span(Tail(c), Digits) ELSE 0
                IN  /\ ni + nf > 0
                    /\ Len(b) = ni + (IF c # <<>> /\ Head(c) = "." THEN 1 + nf ELSE 0)
            finite(s)  == literal(s) /\ isFinite(parseFloat(s))
            integer(s) == literal(s) /\ isInteger(parseFloat(s))
            wellFormed ==
                /\ finite(row.mrp)
                /\ finite(row.price)
                /\ Truthy(row, "quantity") => integer(row.quantity)
            invalid   == [row |-> i, data |-> row, reason |-> InvalidNumber]
        IN  ~missingRequired(row) =>
                IF wellFormed
                THEN \A j \in 1..Len(up[u].failedValidation) :
                        up[u].failedValidation[j] # invalid
                ELSE \E j \in 1..Len(up[u].failedValidation) :
                        up[u].failedValidation[j] = invalid

\* C12: a listing request whose page and limit are each absent (then 1 and
\* 10) or a whole number >= 1 is answered, unless the store rejects a query,
\* with status 200, currentPage = page, totalProducts = the number of entries
\* of the catalog, totalPages = ceil(total / limit), and as products the
\* entries of the catalog in storage order from offset (page - 1) * limit
\* on, min(limit, max(0, total - offset)) of them; so an empty catalog gives
\* 200 with totalProducts 0 and no products.
C12_Listing ==
    [][LET q          == get.query
           natural(k) == k \in DOMAIN q =>
                            /\ q[k] # <<>>
                            /\ \A i \in 1..Len(q[k]) : q[k][i] \in Digits
                            /\ DigitsVal(q[k]) >= 1
           P          == IF "page" \in DOMAIN q THEN DigitsVal(q.page) ELSE 1
           L          == IF "limit" \in DOMAIN q THEN DigitsVal(q.limit) ELSE 10
           total      == Len(catalog)
           offset     == (P - 1) * L
           rest       == IF total > offset THEN total - offset ELSE 0
           len        == IF L < rest THEN L ELSE rest
           r          == get'.res
       IN  (get.pc # "closed" /\ get'.pc = "closed" /\ natural("page") /\ natural("limit")) =>
               \/ r = FetchFailure
               \/ /\ r.status = 200
                  /\ r.currentPage = P
                  /\ r.totalProducts = total
                  /\ r.totalPages * L >= total
                  /\ (r.totalPages - 1) * L < total
                  /\ Len(r.products) = len
                  /\ \A k \in 1..len : r.products[k] = catalog[offset + k]
                  /\ total = 0 => r.products = <<>>]_vars

\* the second page of five of a catalog of eleven entries, as answered: it
\* starts at SKU-6 and is the second of three pages
C12_Witness ==
    /\ get.pc = "closed"
    /\ get.query = [page |-> <<"2">>, limit |-> <<"5">>]
    /\ Len(catalog) = 11
    /\ get.res.status = 200
    /\ get.res.totalProducts = 11
    /\ get.res.totalPages = 3
    /\ get.res.currentPage = 2
    /\ Len(get.res.products) = 5
    /\ get.res.products[1].sku = <<"S", "K", "U", "-", "6">>

=============================================================================
